---- MODULE Spec2Model ----
(***************************************************************************)
(* Model of prime_property_analyzer.py: the primality oracle, the prime    *)
(* enumerator, the digit-square invariant, the gap-pair scanner with its   *)
(* report loop, and the mod-6 structural analyzer with its grouping loops. *)
(* Every loop of the source is a step machine: one action per iteration.   *)
(***************************************************************************)
EXTENDS Integers, Sequences, FiniteSets, TLC

\* ---------------------------------------------------------------- bounds
\* Largest value of --max-prime explored (and largest argument of is_prime
\* in the oracle's own specification).
MaxN == 200
\* Largest argument of is_prime explored by the oracle's own specification.
MaxArg == 600
\* Bounds below zero explored: max_n ranges over -NegN .. MaxN.
NegN == 2
\* Moduli handed to _collect_base10_data: 3 is the caller's literal
\* (line 152); 7 is the modulus of the counterexample-cap scenario.
Moduli == {3, 7}

\* ------------------------------------------------------------- constants
GAPS_TO_ANALYZE == <<2, 4, 6, 8, 10, 12, 14, 16, 18, 20, 24, 30>>
MOD6_GAPS == <<6, 12, 18, 24, 30>>
\* the literal list of line 156
PROVEN_UNIVERSAL == {2, 4, 8, 10, 12, 18}
\* the literal 10 of line 108
CexCap == 10
\* the literal 11 of line 91
MinP == 11
\* line 122 mutated: the range starts below 11
Mod6RangeStartLow == 11 - 6
\* the literal 11 of line 122
Mod6RangeStart == 11

VARIABLES
    pc,                     \* position of the running function
    fault,                  \* TRUE once an exception was raised
    n_arg, i, ret,          \* is_prime: argument, trial divisor, result
    delta,                  \* compute_delta: value returned
    max_n, n, primes,       \* generate_primes_array: bound, loop var, list
    modulus, gidx, idx,     \* scanner: modulus, gap index, index in primes
    total_pairs, successful_pairs, counterexamples,
    counted,                \* history: pairs counted at line 99, with outcome
    lines,                  \* rows printed by run_base10_analysis
    p1v,                    \* _collect_mod6_data: loop variable p1
    mod6_results, digit_pattern_results,
    cursor,                 \* run_mod6_analysis: position in the data lists
    stats_mod6, stats_digit, failing_examples

vars == <<pc, fault, n_arg, i, ret, delta, max_n, n, primes, modulus, gidx, idx,
          total_pairs, successful_pairs, counterexamples, counted, lines,
          p1v, mod6_results, digit_pattern_results, cursor,
          stats_mod6, stats_digit, failing_examples>>

Range(s) == {s[j] : j \in 1..Len(s)}

\* ------------------------------------------------- reference definitions
\* n >= 2 and no d in 2..n-1 divides n
RefIsPrime(m) == m >= 2 /\ \A d \in 2..(m - 1) : m % d # 0

\* ------------------------------------------------------------- is_prime
\* line 55 mutated: strict comparison
TrialContinuesStrict(m, d) == d * d < m

\* line 55: while i * i <= n
TrialContinues(m, d) == d * d <= m

\* lines 48-53: the three early returns; "loop" when the while is reached
is_prime_entry(m) ==
    IF m < 2 THEN "False"
    ELSE IF m = 2 THEN "True"
    ELSE IF m % 2 = 0 THEN "False"
    ELSE "loop"

\* lines 55-59: one evaluation of the while condition and its body
is_prime_iter(m, d) ==
    IF TrialContinues(m, d)
    THEN IF m % d = 0 THEN "False" ELSE "continue"
    ELSE "True"

RECURSIVE is_prime_loop(_, _)
is_prime_loop(m, d) ==
    LET r == is_prime_iter(m, d)
    IN  IF r = "continue" THEN is_prime_loop(m, d + 2) ELSE r = "True"

\* lines 45-59 as a function
is_prime(m) ==
    LET e == is_prime_entry(m)
    IN  IF e = "loop" THEN is_prime_loop(m, 3) ELSE e = "True"

\* ------------------------------------------------ generate_primes_array
\* line 65 mutated: range(2, max_n)
GenRangeEndExclusive(bound) == bound

\* line 65: range(2, max_n + 1) stops before max_n + 1
GenRangeEnd(bound) == bound + 1

\* lines 66-67
GenStep(acc, m) == IF is_prime(m) THEN Append(acc, m) ELSE acc

\* The for loop of line 65 over lo .. hi-1, applying GenStep to each
\* candidate in ascending order.  The range is halved instead of walked one
\* by one to keep the evaluation shallow; the order of the appends is the
\* loop's.
RECURSIVE GenRange(_, _)
GenRange(lo, hi) ==
    IF lo >= hi THEN <<>>
    ELSE IF hi = lo + 1 THEN GenStep(<<>>, lo)
    ELSE LET mid == (lo + hi) \div 2
         IN  GenRange(lo, mid) \o GenRange(mid, hi)

\* lines 61-68 as a function
generate_primes_array(bound) == GenRange(2, GenRangeEnd(bound))

\* -------------------------------------------------------- compute_delta
\* line 77 mutated: n is not subtracted
compute_delta_nosubtract(m) ==
    IF m < 10 THEN -1
    ELSE LET x == m \div 10
             y == m % 10
         IN  x * x + y * y

\* lines 70-77
compute_delta(m) ==
    IF m < 10 THEN -1
    ELSE LET x == m \div 10
             y == m % 10
         IN  x * x + y * y - m

\* ------------------------------------------------------ idle components
\* Values of the variables a specification does not use.
PrimeIdle == n_arg = 0 /\ i = 0 /\ ret = FALSE /\ delta = 0
GenIdle == n = 0
ScanIdle ==
    /\ modulus = 3 /\ idx = 0
    /\ total_pairs = 0 /\ successful_pairs = 0
    /\ counterexamples = <<>> /\ counted = <<>> /\ lines = <<>>
Mod6Idle ==
    /\ p1v = 0 /\ mod6_results = <<>> /\ digit_pattern_results = <<>>
    /\ cursor = 0 /\ stats_mod6 = <<>> /\ stats_digit = <<>>
    /\ failing_examples = <<>>

PrimeVars == <<n_arg, i, ret, delta>>
GenVars == <<n>>
ScanVars == <<modulus, idx, total_pairs, successful_pairs, counterexamples,
              counted, lines>>
Mod6Vars == <<p1v, mod6_results, digit_pattern_results, cursor,
              stats_mod6, stats_digit, failing_examples>>

\* =================================================== is_prime, stepwise
InitPrime ==
    /\ pc = "is_prime" /\ fault = FALSE
    /\ n_arg \in (0 - NegN)..MaxArg /\ i = 0 /\ ret = FALSE /\ delta = 0
    /\ max_n = 0 /\ primes = <<>> /\ gidx = 0
    /\ GenIdle /\ ScanIdle /\ Mod6Idle

\* lines 48-54: an early return, or i = 3 and the while loop is entered
IsPrimeEntry ==
    /\ pc = "is_prime"
    /\ LET e == is_prime_entry(n_arg)
       IN  IF e = "loop"
           THEN pc' = "while" /\ i' = 3 /\ ret' = ret
           ELSE pc' = "returned" /\ i' = i /\ ret' = (e = "True")
    /\ UNCHANGED <<fault, n_arg, max_n, primes, gidx, delta, GenVars, ScanVars, Mod6Vars>>

\* lines 55-58: the condition holds and i does not divide n: i += 2
IsPrimeAdvance ==
    /\ pc = "while"
    /\ is_prime_iter(n_arg, i) = "continue"
    /\ i' = i + 2
    /\ UNCHANGED <<pc, ret, fault, n_arg, max_n, primes, gidx, delta, GenVars, ScanVars, Mod6Vars>>

\* lines 56-57: the condition holds and i divides n: return False
IsPrimeDivides ==
    /\ pc = "while"
    /\ is_prime_iter(n_arg, i) = "False"
    /\ ret' = FALSE /\ pc' = "returned"
    /\ UNCHANGED <<i, fault, n_arg, max_n, primes, gidx, delta, GenVars, ScanVars, Mod6Vars>>

\* lines 55, 59: the condition fails: return True
IsPrimeExhaust ==
    /\ pc = "while"
    /\ is_prime_iter(n_arg, i) = "True"
    /\ ret' = TRUE /\ pc' = "returned"
    /\ UNCHANGED <<i, fault, n_arg, max_n, primes, gidx, delta, GenVars, ScanVars, Mod6Vars>>

NextPrime == IsPrimeEntry \/ IsPrimeAdvance \/ IsPrimeDivides \/ IsPrimeExhaust

SpecPrime == InitPrime /\ [][NextPrime]_vars

\* The function is single-threaded and has no suspension point: a step that
\* is enabled is taken.
FairSpecPrime == SpecPrime /\ WF_vars(NextPrime)

\* ====================================== generate_primes_array, stepwise
InitGen ==
    /\ pc = "generate" /\ fault = FALSE
    /\ max_n \in (0 - NegN)..MaxN
    /\ n = 2 /\ primes = <<>> /\ gidx = 0
    /\ PrimeIdle /\ ScanIdle /\ Mod6Idle

\* lines 65-67: one iteration of the for loop
GenIter ==
    /\ pc = "generate"
    /\ n < GenRangeEnd(max_n)
    /\ primes' = GenStep(primes, n)
    /\ n' = n + 1
    /\ UNCHANGED <<pc, fault, max_n, gidx, PrimeVars, ScanVars, Mod6Vars>>

\* line 68: the range is exhausted, the list is returned
GenReturn ==
    /\ pc = "generate"
    /\ n >= GenRangeEnd(max_n)
    /\ pc' = "generated"
    /\ UNCHANGED <<fault, max_n, n, primes, gidx, PrimeVars, ScanVars, Mod6Vars>>

NextGen == GenIter \/ GenReturn

SpecGen == InitGen /\ [][NextGen]_vars

\* ==================================================== _collect_mod6_data
\* line 122 mutated: range(11, max_prime - gap)
Mod6RangeEndExclusive(bound, gap) == bound - gap

\* line 122: range(11, max_prime - gap + 1) stops before max_prime - gap + 1
Mod6RangeEnd(bound, gap) == bound - gap + 1

\* lines 126-130: has_property, with the deltas computed in line
Mod6HasProperty(p1, p2) ==
    LET x1 == p1 \div 10
        y1 == p1 % 10
        x2 == p2 \div 10
        y2 == p2 % 10
        delta1 == x1 * x1 + y1 * y1 - p1
        delta2 == x2 * x2 + y2 * y2 - p2
    IN  (delta1 % 3 = 0) \/ (delta2 % 3 = 0)

\* line 132: the tuple appended to mod6_results
Mod6Record(p1, p2) == <<p1 % 6, Mod6HasProperty(p1, p2)>>

\* lines 133-135: the tuple appended to digit_pattern_results
DigitRecord(p1, p2) ==
    <<p1 % 10, p2 % 10, Mod6HasProperty(p1, p2), p1, p2,
      (p1 \div 10) % 3, (p2 \div 10) % 3>>

\* lines 123-135 mutated: the second list misses the record when the pair
\* has the property
Mod6StepMisaligned(res, p1, gap) ==
    IF is_prime(p1) /\ is_prime(p1 + gap)
    THEN <<Append(res[1], Mod6Record(p1, p1 + gap)),
           IF Mod6HasProperty(p1, p1 + gap) THEN res[2]
           ELSE Append(res[2], DigitRecord(p1, p1 + gap))>>
    ELSE res

\* lines 123-135: the body of the loop, on res = <<mod6_results,
\* digit_pattern_results>>
Mod6Step(res, p1, gap) ==
    IF is_prime(p1)
    THEN LET p2 == p1 + gap
         IN  IF is_prime(p2)
             THEN <<Append(res[1], Mod6Record(p1, p2)),
                    Append(res[2], DigitRecord(p1, p2))>>
             ELSE res
    ELSE res

\* The for loop of line 122 over lo .. hi-1, applying Mod6Step to each p1 in
\* ascending order (the range is halved to keep the evaluation shallow).
RECURSIVE Mod6Range(_, _, _)
Mod6Range(lo, hi, gap) ==
    IF lo >= hi THEN <<(<<>>), (<<>>)>>
    ELSE IF hi = lo + 1 THEN Mod6Step(<<(<<>>), (<<>>)>>, lo, gap)
    ELSE LET mid == (lo + hi) \div 2
             a == Mod6Range(lo, mid, gap)
             b == Mod6Range(mid, hi, gap)
         IN  <<a[1] \o b[1], a[2] \o b[2]>>

\* lines 113-137 as a function
collect_mod6_data(bound, gap) ==
    Mod6Range(Mod6RangeStart, Mod6RangeEnd(bound, gap), gap)

\* ================================= _collect_base10_data, stepwise, inside
\* ================================= the gap loop of run_base10_analysis
\* line 87: prime_set = set(primes)
prime_set(ps) == Range(ps)

\* primes[-1] of line 95
LastPrime(ps) == ps[Len(ps)]

\* line 95 mutated: >= instead of >
PastLastInclusive(p2, ps) == p2 >= LastPrime(ps)

\* line 95: if p2 > primes[-1]
PastLast(p2, ps) == p2 > LastPrime(ps)

\* lines 100-105: mod1 == 0 or mod2 == 0
SuccessPredicate(p1, p2, m) ==
    LET delta1 == compute_delta(p1)
        delta2 == compute_delta(p2)
        mod1 == delta1 % m
        mod2 == delta2 % m
    IN  mod1 = 0 \/ mod2 = 0

\* line 108 mutated: <= instead of <
CexAppendOffByOne(cex, pair) ==
    IF Len(cex) <= CexCap THEN Append(cex, pair) ELSE cex

\* lines 108-109
CexAppend(cex, pair) ==
    IF Len(cex) < CexCap THEN Append(cex, pair) ELSE cex

\* line 154 mutated: >= instead of >
HasRateNonNegative(total) == total >= 0

\* line 154: if total > 0
HasRate(total) == total > 0

\* line 155: rate = (success / total) * 100, kept exact as the fraction
\* <<numerator, denominator>>
Rate(success, total) == <<success * 100, total>>

\* abs(rate - 100.0) < 1e-9 of line 158: for totals far below 10^11 the
\* quotient is within 1e-9 of 100 only when it is exactly 100
IsFullRate(rate) == rate[1] = 100 * rate[2]

\* lines 156-161
Status(gap, rate) ==
    LET is_proven_universal == gap \in PROVEN_UNIVERSAL
    IN  IF is_proven_universal /\ IsFullRate(rate)
        THEN "100% (Universal)" ELSE "rate"

\* lines 165-169: the row printed for a gap, with counterex[:3]
ReportRow(gap, total, success, counterex) ==
    LET rate == Rate(success, total)
    IN  [gap |-> gap, total |-> total, success |-> success, rate |-> rate,
         status |-> Status(gap, rate),
         shown |-> SubSeq(counterex, 1, IF Len(counterex) < 3 THEN Len(counterex) ELSE 3)]

\* the gap of the current iteration of line 151
CurGap == GAPS_TO_ANALYZE[gidx]

InitScan ==
    /\ pc = "base10" /\ fault = FALSE
    /\ max_n \in (0 - NegN)..MaxN
    /\ primes = generate_primes_array(max_n)
    /\ modulus \in Moduli
    /\ gidx = 1 /\ idx = 0
    /\ total_pairs = 0 /\ successful_pairs = 0
    /\ counterexamples = <<>> /\ counted = <<>> /\ lines = <<>>
    /\ PrimeIdle /\ GenIdle /\ Mod6Idle

\* lines 151-152, 84-89: the call for the next gap sets up the locals
ScanCall ==
    /\ pc = "base10"
    /\ total_pairs' = 0 /\ successful_pairs' = 0
    /\ counterexamples' = <<>> /\ counted' = <<>>
    /\ idx' = 1
    /\ pc' = "scan"
    /\ UNCHANGED <<fault, max_n, primes, modulus, gidx, lines, n, PrimeVars, Mod6Vars>>

\* lines 91-92: p1 < 11: continue
ScanSkip ==
    /\ pc = "scan" /\ idx <= Len(primes)
    /\ primes[idx] < MinP
    /\ idx' = idx + 1
    /\ UNCHANGED <<pc, fault, max_n, primes, modulus, gidx, total_pairs,
                   successful_pairs, counterexamples, counted, lines, n,
                   PrimeVars, Mod6Vars>>

\* lines 94-96: p2 exceeds the largest prime: break
ScanBreak ==
    /\ pc = "scan" /\ idx <= Len(primes)
    /\ ~(primes[idx] < MinP)
    /\ PastLast(primes[idx] + CurGap, primes)
    /\ pc' = "report"
    /\ UNCHANGED <<fault, max_n, primes, modulus, gidx, idx, total_pairs,
                   successful_pairs, counterexamples, counted, lines, n,
                   PrimeVars, Mod6Vars>>

\* line 98: p2 is not prime: next p1
ScanMiss ==
    /\ pc = "scan" /\ idx <= Len(primes)
    /\ ~(primes[idx] < MinP)
    /\ ~PastLast(primes[idx] + CurGap, primes)
    /\ (primes[idx] + CurGap) \notin prime_set(primes)
    /\ idx' = idx + 1
    /\ UNCHANGED <<pc, fault, max_n, primes, modulus, gidx, total_pairs,
                   successful_pairs, counterexamples, counted, lines, n,
                   PrimeVars, Mod6Vars>>

\* lines 98-109: p2 is prime: the pair is counted and classified
ScanCount ==
    /\ pc = "scan" /\ idx <= Len(primes)
    /\ ~(primes[idx] < MinP)
    /\ ~PastLast(primes[idx] + CurGap, primes)
    /\ (primes[idx] + CurGap) \in prime_set(primes)
    /\ LET p1 == primes[idx]
           p2 == p1 + CurGap
           ok == SuccessPredicate(p1, p2, modulus)
       IN  /\ total_pairs' = total_pairs + 1
           /\ successful_pairs' = IF ok THEN successful_pairs + 1 ELSE successful_pairs
           /\ counterexamples' = IF ok THEN counterexamples
                                 ELSE CexAppend(counterexamples, <<p1, p2>>)
           /\ counted' = Append(counted, <<p1, p2, ok>>)
    /\ idx' = idx + 1
    /\ UNCHANGED <<pc, fault, max_n, primes, modulus, gidx, lines, n,
                   PrimeVars, Mod6Vars>>

\* lines 89, 111: the for loop ran out of primes
ScanExhaust ==
    /\ pc = "scan" /\ idx > Len(primes)
    /\ pc' = "report"
    /\ UNCHANGED <<fault, max_n, primes, modulus, gidx, idx, total_pairs,
                   successful_pairs, counterexamples, counted, lines, n,
                   PrimeVars, Mod6Vars>>

\* lines 154-169: the row of this gap, printed only when total > 0; the
\* division of line 155 raises ZeroDivisionError when total is 0
Report ==
    /\ pc = "report"
    /\ IF HasRate(total_pairs)
       THEN IF total_pairs = 0
            THEN /\ fault' = TRUE /\ pc' = "crashed"
                 /\ UNCHANGED <<lines, gidx>>
            ELSE /\ lines' = Append(lines, ReportRow(CurGap, total_pairs,
                                        successful_pairs, counterexamples))
                 /\ gidx' = gidx + 1
                 /\ pc' = IF gidx = Len(GAPS_TO_ANALYZE) THEN "done" ELSE "base10"
                 /\ fault' = fault
       ELSE /\ gidx' = gidx + 1
            /\ pc' = IF gidx = Len(GAPS_TO_ANALYZE) THEN "done" ELSE "base10"
            /\ UNCHANGED <<lines, fault>>
    /\ UNCHANGED <<max_n, primes, modulus, idx, total_pairs, successful_pairs,
                   counterexamples, counted, n, PrimeVars, Mod6Vars>>

NextScan ==
    ScanCall \/ ScanSkip \/ ScanBreak \/ ScanMiss \/ ScanCount \/ ScanExhaust \/ Report

SpecScan == InitScan /\ [][NextScan]_vars

\* ============================ run_mod6_analysis with _collect_mod6_data,
\* ============================ stepwise
\* the gap of the current iteration of line 179
CurGap6 == MOD6_GAPS[gidx]

\* str() of a decimal digit, as the f-string of line 205 formats y1 and y2
DigitStr(d) == <<"0", "1", "2", "3", "4", "5", "6", "7", "8", "9">>[d + 1]

\* line 205: pattern = f"{y1}→{y2}"
Pattern(y1, y2) == DigitStr(y1) \o "→" \o DigitStr(y2)

\* lines 190-192 and 209-211: [total, success] after one more record
Bump(entry, has_property) ==
    <<entry[1] + 1, IF has_property THEN entry[2] + 1 ELSE entry[2]>>

\* line 188: stats_mod6 = {1: [0, 0], 5: [0, 0]}
StatsMod6Init == (1 :> <<0, 0>>) @@ (5 :> <<0, 0>>)

InitMod6 ==
    /\ pc = "mod6" /\ fault = FALSE
    /\ max_n \in (0 - NegN)..MaxN
    /\ gidx = 1
    /\ primes = <<>>
    /\ Mod6Idle /\ PrimeIdle /\ GenIdle /\ ScanIdle

\* lines 179-180, 118-122: the call for the next gap
Mod6Call ==
    /\ pc = "mod6"
    /\ mod6_results' = <<>> /\ digit_pattern_results' = <<>>
    /\ p1v' = Mod6RangeStart
    /\ pc' = "collect"
    /\ UNCHANGED <<fault, max_n, gidx, primes, cursor, stats_mod6, stats_digit,
                   failing_examples, PrimeVars, GenVars, ScanVars>>

\* lines 122-135: one iteration of the for loop
Mod6Iter ==
    /\ pc = "collect"
    /\ p1v < Mod6RangeEnd(max_n, CurGap6)
    /\ LET res == Mod6Step(<<mod6_results, digit_pattern_results>>, p1v, CurGap6)
       IN  /\ mod6_results' = res[1]
           /\ digit_pattern_results' = res[2]
    /\ p1v' = p1v + 1
    /\ UNCHANGED <<pc, fault, max_n, gidx, primes, cursor, stats_mod6,
                   stats_digit, failing_examples, PrimeVars, GenVars, ScanVars>>

\* lines 137, 188: the lists are returned and the residue table is set up
Mod6Return ==
    /\ pc = "collect"
    /\ p1v >= Mod6RangeEnd(max_n, CurGap6)
    /\ stats_mod6' = StatsMod6Init
    /\ cursor' = 1
    /\ pc' = "groupA"
    /\ UNCHANGED <<fault, max_n, gidx, primes, p1v, mod6_results,
                   digit_pattern_results, stats_digit, failing_examples,
                   PrimeVars, GenVars, ScanVars>>

\* lines 189-192: one record of mod6_data; a residue that is not a key of
\* the table raises KeyError
GroupAIter ==
    /\ pc = "groupA" /\ cursor <= Len(mod6_results)
    /\ LET p_mod6 == mod6_results[cursor][1]
           has_property == mod6_results[cursor][2]
       IN  IF p_mod6 \in DOMAIN stats_mod6
           THEN /\ stats_mod6' = [stats_mod6 EXCEPT ![p_mod6] = Bump(@, has_property)]
                /\ cursor' = cursor + 1
                /\ UNCHANGED <<pc, fault>>
           ELSE /\ fault' = TRUE /\ pc' = "crashed"
                /\ UNCHANGED <<stats_mod6, cursor>>
    /\ UNCHANGED <<max_n, gidx, primes, p1v, mod6_results, digit_pattern_results,
                   stats_digit, failing_examples, PrimeVars, GenVars, ScanVars>>

\* lines 194-202: the residue rates are printed (guarded by total > 0) and
\* the pattern tables start empty
GroupAEnd ==
    /\ pc = "groupA" /\ cursor > Len(mod6_results)
    /\ stats_digit' = <<>> /\ failing_examples' = <<>>
    /\ cursor' = 1
    /\ pc' = "groupB"
    /\ UNCHANGED <<fault, max_n, gidx, primes, p1v, mod6_results,
                   digit_pattern_results, stats_mod6, PrimeVars, GenVars, ScanVars>>

\* lines 204-213: one record of digit_data
GroupBIter ==
    /\ pc = "groupB" /\ cursor <= Len(digit_pattern_results)
    /\ LET rec == digit_pattern_results[cursor]
           has_property == rec[3]
           pattern == Pattern(rec[1], rec[2])
           present == IF pattern \in DOMAIN stats_digit THEN stats_digit
                      ELSE stats_digit @@ (pattern :> <<0, 0>>)
       IN  /\ stats_digit' = [present EXCEPT ![pattern] = Bump(@, has_property)]
           /\ failing_examples' =
                 IF ~has_property /\ pattern \notin DOMAIN failing_examples
                 THEN failing_examples @@ (pattern :> <<rec[4], rec[5], rec[6], rec[7]>>)
                 ELSE failing_examples
    /\ cursor' = cursor + 1
    /\ UNCHANGED <<pc, fault, max_n, gidx, primes, p1v, mod6_results,
                   digit_pattern_results, stats_mod6, PrimeVars, GenVars, ScanVars>>

\* lines 215-227: the pattern rates are printed; the division of line 217
\* raises ZeroDivisionError for a pattern whose total is 0; then the next gap
GroupBEnd ==
    /\ pc = "groupB" /\ cursor > Len(digit_pattern_results)
    /\ IF \E pattern \in DOMAIN stats_digit : stats_digit[pattern][1] = 0
       THEN fault' = TRUE /\ pc' = "crashed" /\ gidx' = gidx
       ELSE /\ fault' = fault
            /\ gidx' = IF gidx = Len(MOD6_GAPS) THEN gidx ELSE gidx + 1
            /\ pc' = IF gidx = Len(MOD6_GAPS) THEN "done" ELSE "mod6"
    /\ UNCHANGED <<max_n, primes, p1v, mod6_results, digit_pattern_results,
                   cursor, stats_mod6, stats_digit, failing_examples,
                   PrimeVars, GenVars, ScanVars>>

NextMod6 ==
    Mod6Call \/ Mod6Iter \/ Mod6Return \/ GroupAIter \/ GroupAEnd \/ GroupBIter \/ GroupBEnd

SpecMod6 == InitMod6 /\ [][NextMod6]_vars

\* ================================================ compute_delta, called
InitDelta ==
    /\ pc = "compute_delta" /\ fault = FALSE
    /\ n_arg \in (0 - NegN)..MaxArg /\ i = 0 /\ ret = FALSE /\ delta = 0
    /\ max_n = 0 /\ primes = <<>> /\ gidx = 0
    /\ GenIdle /\ ScanIdle /\ Mod6Idle

\* lines 70-77: the call returns
DeltaCall ==
    /\ pc = "compute_delta"
    /\ delta' = compute_delta(n_arg)
    /\ pc' = "delta_returned"
    /\ UNCHANGED <<fault, n_arg, i, ret, max_n, primes, gidx, GenVars, ScanVars, Mod6Vars>>

NextDelta == DeltaCall

SpecDelta == InitDelta /\ [][NextDelta]_vars

\* ------------------------------------------------------------------ C4
\* C4: is_prime is total and returns true exactly for the primes: its loop
\* terminates for every argument, and the value returned (by the stepwise
\* run and by the function used elsewhere in the model) equals the reference
\* definition "n >= 2 and no d in 2..n-1 divides n".
C4_IsPrimeTotalCorrect ==
    /\ <>(pc = "returned")
    /\ [](pc = "returned" =>
            /\ ret = RefIsPrime(n_arg)
            /\ is_prime(n_arg) = ret)

\* an odd square of a prime went through the loop and was rejected
C4_Witness == pc = "returned" /\ n_arg = 49 /\ i = 7 /\ ret = FALSE

\* ------------------------------------------------------------------ C5
StrictlyIncreasing(s) == \A j \in 1..(Len(s) - 1) : s[j] < s[j + 1]

\* C5: when generate_primes_array(N) returns, the list is strictly
\* increasing, holds no composite, holds every prime p with 2 <= p <= N,
\* and is empty when N < 2.
C5_EnumeratorSoundComplete ==
    pc = "generated" =>
        /\ StrictlyIncreasing(primes)
        /\ \A j \in 1..Len(primes) : RefIsPrime(primes[j])
        /\ \A p \in 2..max_n : RefIsPrime(p) => p \in Range(primes)
        /\ Range(primes) \subseteq 2..max_n
        /\ (max_n < 2 => primes = <<>>)
        /\ primes = generate_primes_array(max_n)

\* the bound itself is prime and is the last element returned
C5_Witness ==
    /\ pc = "generated" /\ max_n = 97
    /\ Len(primes) = 25 /\ primes[25] = 97

\* ------------------------------------------- references for the scanner
\* (n div 10)^2 + (n mod 10)^2 - n
RefDelta(m) == (m \div 10) * (m \div 10) + (m % 10) * (m % 10) - m

\* the first members p1 of the pairs (p1, p1+k) with p1 >= 11, both prime,
\* p1 + k <= N
QualPairs(bound, k) ==
    {p \in 11..bound : RefIsPrime(p) /\ RefIsPrime(p + k) /\ p + k <= bound}

\* a pair fails when neither delta is divisible by m
RefFails(p, k, m) == RefDelta(p) % m # 0 /\ RefDelta(p + k) % m # 0

FailingPairs(bound, k, m) == {p \in QualPairs(bound, k) : RefFails(p, k, m)}

\* the elements of a finite set of integers in ascending order
RECURSIVE Ascending(_)
Ascending(S) ==
    IF S = {} THEN <<>>
    ELSE LET lo == CHOOSE a \in S : \A b \in S : a <= b
         IN  <<lo>> \o Ascending(S \ {lo})

Prefix(s, k) == SubSeq(s, 1, IF Len(s) < k THEN Len(s) ELSE k)

Min(a, b) == IF a < b THEN a ELSE b

\* ------------------------------------------------------------------ C1
\* C1: when _collect_base10_data returns for gap k, total_pairs is the
\* brute-force count of p1 >= 11 with p1 and p1+k prime and p1+k <= N, and
\* the pairs counted are exactly those: the break of line 96 drops none.
C1_TotalPairsBruteForce ==
    pc = "report" =>
        /\ total_pairs = Cardinality(QualPairs(max_n, CurGap))
        /\ {c[1] : c \in Range(counted)} = QualPairs(max_n, CurGap)

\* N = 200, k = 2: 13 pairs, the last of which, (197,199), ends on the
\* largest generated prime
C1_Witness ==
    /\ pc = "report" /\ max_n = 200 /\ CurGap = 2
    /\ total_pairs = 13
    /\ counted[Len(counted)] = <<197, LastPrime(primes), TRUE>>

\* ------------------------------------------------------------------ C2
\* C2: with modulus 3, for every gap in {2,4,8,10,12,18} the scan returns
\* successful_pairs = total_pairs and no counterexample, and the row
\* printed for such a gap carries the status "100% (Universal)".
C2_UniversalGaps ==
    modulus = 3 =>
        /\ (pc = "report" /\ CurGap \in {2, 4, 8, 10, 12, 18} =>
                /\ successful_pairs = total_pairs
                /\ counterexamples = <<>>)
        /\ \A j \in 1..Len(lines) :
               lines[j].gap \in {2, 4, 8, 10, 12, 18} =>
                   /\ lines[j].success = lines[j].total
                   /\ lines[j].status = "100% (Universal)"

C2_Witness ==
    /\ modulus = 3 /\ pc = "report" /\ CurGap = 18
    /\ total_pairs >= 10 /\ successful_pairs = total_pairs
    /\ Len(lines) >= 5

\* ------------------------------------------------------------------ C3
\* C3: for every gap in {6,12,18,24,30}, the pairs counted by
\* _collect_base10_data(generate_primes_array(N), k, 3) are exactly the
\* (p1, p2) recorded by _collect_mod6_data(N, k), each with the same
\* has_property value, so total_pairs is the number of mod-6 records and
\* successful_pairs the number of records with has_property true.
C3_ScannersAgree ==
    (pc = "report" /\ modulus = 3 /\ CurGap \in Range(MOD6_GAPS)) =>
        LET r == collect_mod6_data(max_n, CurGap)
            digits == r[2]
        IN  /\ {<<c[1], c[2], c[3]>> : c \in Range(counted)}
                 = {<<d[4], d[5], d[3]>> : d \in Range(digits)}
            /\ total_pairs = Len(r[1])
            /\ total_pairs = Len(digits)
            /\ successful_pairs = Cardinality({j \in 1..Len(digits) : digits[j][3]})

\* gap 6 with both outcomes present
C3_Witness ==
    /\ pc = "report" /\ modulus = 3 /\ CurGap = 6
    /\ total_pairs >= 10 /\ successful_pairs < total_pairs
    /\ successful_pairs > 0

\* ------------------------------------------------------------------ C6
\* the failing pairs among those counted so far, in scan order
RECURSIVE FailingOf(_)
FailingOf(s) ==
    IF s = <<>> THEN <<>>
    ELSE LET h == Head(s)
         IN  (IF h[3] THEN <<>> ELSE <<(<<h[1], h[2]>>)>>) \o FailingOf(Tail(s))

\* C6: the counterexample list never holds more than 10 entries; at every
\* step it is the first min(10, f) failing pairs counted so far, and at the
\* return it is the first min(10, F) failing pairs in ascending order of p1,
\* where F counts all failing qualifying pairs; total_pairs and
\* successful_pairs count every pair also after the list is full.
C6_CounterexampleCap ==
    pc \in {"scan", "report"} =>
        /\ Len(counterexamples) <= 10
        /\ counterexamples = Prefix(FailingOf(counted), 10)
        /\ total_pairs = Len(counted)
        /\ successful_pairs = Cardinality({j \in 1..Len(counted) : counted[j][3]})
        /\ pc = "report" =>
             LET F == FailingPairs(max_n, CurGap, modulus)
                 all == Ascending(F)
             IN  /\ Len(counterexamples) = Min(10, Cardinality(F))
                 /\ \A j \in 1..Len(counterexamples) :
                        counterexamples[j] = <<all[j], all[j] + CurGap>>
                 /\ total_pairs = Cardinality(QualPairs(max_n, CurGap))
                 /\ successful_pairs = total_pairs - Cardinality(F)

\* the list is full and pairs counted after the tenth failure include both
\* a further failure and a further success
C6_Witness ==
    /\ pc = "report" /\ Len(counterexamples) = 10
    /\ Len(FailingOf(counted)) > 10
    /\ \E j \in 1..Len(counted) :
          /\ counted[j][1] > counterexamples[10][1]
          /\ counted[j][3]

\* ------------------------------------------------------------------ C9
\* the fraction num/den lies in [0, 100]
RateInBounds(rate) == rate[2] > 0 /\ 0 <= rate[1] /\ rate[1] <= 100 * rate[2]

\* C9: at every step 0 <= successful_pairs <= total_pairs; no fault is
\* raised; every printed rate lies in [0,100]; a scan without qualifying
\* pair returns (0, 0, empty list), and no row is ever printed for a gap
\* whose total is 0.
C9_RateBoundsAndZeroGuard ==
    /\ 0 <= successful_pairs /\ successful_pairs <= total_pairs
    /\ ~fault /\ pc # "crashed"
    /\ \A j \in 1..Len(lines) :
          /\ lines[j].total > 0
          /\ RateInBounds(lines[j].rate)
    /\ (pc = "report" /\ QualPairs(max_n, CurGap) = {}) =>
          /\ total_pairs = 0 /\ successful_pairs = 0
          /\ counterexamples = <<>>
    /\ (pc \in {"base10", "done"} /\ gidx > 1 /\ QualPairs(max_n, GAPS_TO_ANALYZE[gidx - 1]) = {}) =>
          \A j \in 1..Len(lines) : lines[j].gap # GAPS_TO_ANALYZE[gidx - 1]

\* the run for N = 20 is over: gaps 2, 4, 6, 8 have a row, the eight gaps
\* without a pair were passed over without a row and without a fault
C9_Witness ==
    /\ pc = "done" /\ max_n = 20 /\ ~fault
    /\ Len(lines) = 4 /\ lines[4].gap = 8
    /\ total_pairs = 0

\* ------------------------------------------------------------------ C7
\* C7: every record appended by _collect_mod6_data(N, k) has p1 >= 11,
\* p2 = p1 + k <= N, both prime, and residue p1 mod 6 in {1, 5}; the lookup
\* stats_mod6[p_mod6] never meets a missing key.
C7_Mod6Records ==
    /\ pc \in {"collect", "groupA", "groupB", "done"} =>
       \A j \in 1..Len(digit_pattern_results) :
          LET p1 == digit_pattern_results[j][4]
              p2 == digit_pattern_results[j][5]
          IN  /\ p1 >= 11
              /\ p2 = p1 + CurGap6
              /\ p2 <= max_n
              /\ RefIsPrime(p1) /\ RefIsPrime(p2)
    /\ \A j \in 1..Len(mod6_results) : mod6_results[j][1] \in {1, 5}
    /\ DOMAIN stats_mod6 \subseteq {1, 5}
    /\ ~fault /\ pc # "crashed"

\* every record was looked up and both residues occurred
C7_Witness ==
    /\ pc = "groupA" /\ CurGap6 = 6
    /\ cursor = Len(mod6_results) + 1
    /\ stats_mod6[1][1] > 0 /\ stats_mod6[5][1] > 0
    /\ digit_pattern_results[Len(digit_pattern_results)][5] = max_n

\* ------------------------------------------------------------------ C8
RECURSIVE SumTotals(_, _)
SumTotals(f, keys) ==
    IF keys = {} THEN 0
    ELSE LET k == CHOOSE k \in keys : TRUE
         IN  f[k][1] + SumTotals(f, keys \ {k})

\* C8: the two result lists have the same length and their i-th entries
\* describe the same pair after every step; once grouped, the per-pattern
\* totals sum to the number of pairs found, as do the two per-residue
\* totals; every pattern present has total >= 1 and 0 <= success <= total.
C8_AlignedAndComplete ==
    /\ Len(mod6_results) = Len(digit_pattern_results)
    /\ \A j \in 1..Len(mod6_results) :
          /\ mod6_results[j][1] = digit_pattern_results[j][4] % 6
          /\ mod6_results[j][2] = digit_pattern_results[j][3]
    /\ pc = "groupA" =>
          SumTotals(stats_mod6, DOMAIN stats_mod6) = cursor - 1
    /\ pc = "groupB" =>
          /\ SumTotals(stats_mod6, DOMAIN stats_mod6) = Len(mod6_results)
          /\ SumTotals(stats_digit, DOMAIN stats_digit) = cursor - 1
          /\ cursor = Len(digit_pattern_results) + 1 =>
                SumTotals(stats_digit, DOMAIN stats_digit) = Len(digit_pattern_results)
          /\ \A pattern \in DOMAIN stats_digit :
                /\ stats_digit[pattern][1] >= 1
                /\ 0 <= stats_digit[pattern][2]
                /\ stats_digit[pattern][2] <= stats_digit[pattern][1]
          /\ DOMAIN failing_examples \subseteq DOMAIN stats_digit

\* the grouping is complete, with several patterns of which one fails
C8_Witness ==
    /\ pc = "groupB" /\ cursor = Len(digit_pattern_results) + 1
    /\ Len(digit_pattern_results) >= 10
    /\ Cardinality(DOMAIN stats_digit) >= 3
    /\ "3→9" \in DOMAIN failing_examples
    /\ failing_examples["3→9"] = <<23, 29, 2, 2>>

\* ------------------------------------------------------------------ C10
\* C10: compute_delta(n) returns -1 if and only if n < 10.
C10_SentinelUnambiguous ==
    pc = "delta_returned" => (delta = -1 <=> n_arg < 10)

====
